---- MODULE Spec2Model ----
(***************************************************************************)
(* Model of src/parser.rs: the liqi frame decoder (Parser::parse), its     *)
(* block splitter (buf_to_blocks, parse_var_int) and the deobfuscator      *)
(* (decode).  Byte buffers are sequences of integers in 0..255; Rust's     *)
(* 0-based positions are kept, so buf[i] of the source is At(buf, i).      *)
(***************************************************************************)
EXTENDS Integers, Sequences, FiniteSets, TLC

\* ------------------------------------------------------------------------
\* Bounds of the model
\* ------------------------------------------------------------------------

\* parse calls are taken while the frame counter is below this cap
MaxTotal == 4

\* ------------------------------------------------------------------------
\* The build of the crate the decoder runs as
\* ------------------------------------------------------------------------

\* "debug" (overflow checks on) or "release" (overflow checks off)
VARIABLE build

\* ------------------------------------------------------------------------
\* Byte-buffer helpers (slices and indexing of &[u8])
\* ------------------------------------------------------------------------

At(buf, i) == buf[i + 1]

\* &buf[a..b]
Slice(buf, a, b) == SubSeq(buf, a + 1, b)

\* &buf[a..]
SliceFrom(buf, a) == SubSeq(buf, a + 1, Len(buf))

RECURSIVE Pow2(_)
Pow2(n) == IF n = 0 THEN 1 ELSE 2 * Pow2(n - 1)

\* bitwise and / xor on bytes, bit by bit
RECURSIVE BitAnd(_, _)
BitAnd(a, b) ==
    IF a = 0 \/ b = 0 THEN 0
    ELSE (IF a % 2 = 1 /\ b % 2 = 1 THEN 1 ELSE 0) + 2 * BitAnd(a \div 2, b \div 2)

RECURSIVE BitXor(_, _)
BitXor(a, b) ==
    IF a = 0 THEN b
    ELSE IF b = 0 THEN a
    ELSE (IF a % 2 = b % 2 THEN 0 ELSE 1) + 2 * BitXor(a \div 2, b \div 2)

\* ------------------------------------------------------------------------
\* usize: a 64-bit word, kept as four 16-bit limbs, least significant first
\* ------------------------------------------------------------------------

\* the width of usize
WordBits == 64

WordZero == <<0, 0, 0, 0>>

\* the word of a number below 2^31
WordOfInt(n) == <<n % 65536, n \div 65536, 0, 0>>

WordFitsInt(w) == w[3] = 0 /\ w[4] = 0 /\ w[2] < 32768

WordToInt(w) == w[1] + 65536 * w[2]

\* (b as usize) << s for a byte b and s in 0..63: bits moved past bit 63 are lost
WordShl(b, s) ==
    LET x == b * Pow2(s % 16)
        lo == x % 65536
        hi == x \div 65536
        q == s \div 16
    IN  << IF q = 0 THEN lo ELSE 0,
           IF q = 1 THEN lo ELSE IF q = 0 THEN hi ELSE 0,
           IF q = 2 THEN lo ELSE IF q = 1 THEN hi ELSE 0,
           IF q = 3 THEN lo ELSE IF q = 2 THEN hi ELSE 0 >>

\* a + b modulo 2^64, with the carry out of bit 63
WordAdd(a, b) ==
    LET s1 == a[1] + b[1]
        s2 == a[2] + b[2] + s1 \div 65536
        s3 == a[3] + b[3] + s2 \div 65536
        s4 == a[4] + b[4] + s3 \div 65536
    IN  [w |-> <<s1 % 65536, s2 % 65536, s3 % 65536, s4 % 65536>>,
         carry |-> s4 \div 65536]

\* the builds of the crate: overflow checks on (debug) or off (release)
Builds == {"debug", "release"}

\* ------------------------------------------------------------------------
\* parse_var_int (parser.rs 218-232)
\* ------------------------------------------------------------------------

VarIntOk(data, i) == [kind |-> "ok", data |-> data, i |-> i, msg |-> ""]

VarIntPanic(msg) == [kind |-> "panic", data |-> WordZero, i |-> 0, msg |-> msg]

\* the step with the mask 0x7f left out
AccumulateNoMask(data, b, shift) == WordAdd(data, WordShl(b, shift % WordBits))

\* data + (((b & 0x7f) as usize) << shift), b & 0x7f being the low seven bits
\* of b; a shift of 64 or more is taken modulo 64 where the build lets it
\* through
Accumulate(data, b, shift) == WordAdd(data, WordShl(b % 128, shift % WordBits))

\* the loop of parse_var_int from position i with the accumulated data/shift
RECURSIVE VarIntLoop(_, _, _, _)
VarIntLoop(buf, i, data, shift) ==
    IF i < Len(buf)
    THEN LET sum == Accumulate(data, At(buf, i), shift)
         IN  IF build = "debug" /\ shift >= WordBits
             THEN VarIntPanic("attempt to shift left with overflow")
             ELSE IF build = "debug" /\ sum.carry > 0
             THEN VarIntPanic("attempt to add with overflow")
             ELSE IF At(buf, i) \div 128 = 0
             THEN VarIntOk(sum.w, i + 1)
             ELSE VarIntLoop(buf, i + 1, sum.w, shift + 7)
    ELSE VarIntOk(data, i)

parse_var_int(buf, p) == VarIntLoop(buf, p, WordZero, 0)

\* usize::to_be_bytes: the 8 bytes of a 64-bit word, most significant first
to_be_bytes(w) ==
    <<w[4] \div 256, w[4] % 256, w[3] \div 256, w[3] % 256,
      w[2] \div 256, w[2] % 256, w[1] \div 256, w[1] % 256>>

\* ------------------------------------------------------------------------
\* buf_to_blocks (parser.rs 177-216)
\* ------------------------------------------------------------------------

NoBytes == <<>>

BlocksOk(method, data) ==
    [kind |-> "ok", method |-> method, data |-> data, msg |-> "", arg |-> NoBytes]

BlocksErr(msg, arg) ==
    [kind |-> "err", method |-> NoBytes, data |-> NoBytes, msg |-> msg, arg |-> arg]

BlocksPanic(msg) ==
    [kind |-> "panic", method |-> NoBytes, data |-> NoBytes, msg |-> msg, arg |-> NoBytes]

\* after the loop: ensure!(blocks.len() == 2), then the two pops
BlocksDone(blocks) ==
    IF Len(blocks) = 2
    THEN BlocksOk(blocks[1], blocks[2])
    ELSE BlocksErr("Invalid number of blocks", <<Len(blocks)>>)

\* the slice taken one byte short
BlockSliceShort(buf, p, len) == Slice(buf, p, p + len - 1)

\* Bytes::copy_from_slice(&buf[p..p + len])
BlockSlice(buf, p, len) == Slice(buf, p, p + len)

\* the while loop: blocks is the sequence of block data collected so far
RECURSIVE BlockLoop(_, _, _)
BlockLoop(buf, i, blocks) ==
    IF i < Len(buf)
    THEN LET blk_type == BitAnd(At(buf, i), 7)
             v == parse_var_int(buf, i + 1)
         IN  CASE blk_type = 0 ->
                    IF v.kind = "panic" THEN BlocksPanic(v.msg)
                    ELSE BlockLoop(buf, v.i, Append(blocks, to_be_bytes(v.data)))
               [] blk_type = 2 ->
                    IF v.kind = "panic" THEN BlocksPanic(v.msg)
                    ELSE IF ~WordFitsInt(v.data) \/ v.i + WordToInt(v.data) > Len(buf)
                    THEN BlocksPanic("range end index out of range for slice")
                    ELSE BlockLoop(buf, v.i + WordToInt(v.data),
                                   Append(blocks, BlockSlice(buf, v.i, WordToInt(v.data))))
               [] OTHER -> BlocksErr("Invalid block type", <<blk_type>>)
    ELSE BlocksDone(blocks)

buf_to_blocks(buf) == BlockLoop(buf, 0, <<>>)

\* ------------------------------------------------------------------------
\* decode, the deobfuscator (parser.rs 234-244)
\* ------------------------------------------------------------------------

keys == <<132, 94, 78, 66, 57, 162, 31, 96, 28>>

\* the key byte without the stride 5 * i
KeyByteNoStride(d, i) == BitAnd(BitXor(23, d) + keys[(i % Len(keys)) + 1], 255)

\* the key byte without the length of the buffer
KeyByteNoLength(d, i) == BitAnd(23 + 5 * i + keys[(i % Len(keys)) + 1], 255)

\* the byte xored into position i of a buffer of length d
KeyByte(d, i) == BitAnd(BitXor(23, d) + 5 * i + keys[(i % Len(keys)) + 1], 255)

decode(data) ==
    [j \in 1..Len(data) |-> BitXor(data[j], KeyByte(Len(data), j - 1))] \o <<>>

\* ------------------------------------------------------------------------
\* Text: String::from_utf8, str::split('.'), to_fqn (parser.rs 79-80, 166-168)
\* ------------------------------------------------------------------------

\* The frames of the model hold ASCII bytes and the lone byte 255, which no
\* UTF-8 sequence contains: a name is text iff all its bytes are ASCII.
FromUtf8Ok(bytes) == \A k \in 1..Len(bytes) : bytes[k] < 128

\* position (1-based) of the first '.' of s, 0 if there is none
RECURSIVE FirstDot(_, _)
FirstDot(s, k) ==
    IF k > Len(s) THEN 0 ELSE IF s[k] = 46 THEN k ELSE FirstDot(s, k + 1)

\* method_name.split('.').collect()
RECURSIVE Split(_)
Split(s) ==
    LET k == FirstDot(s, 1)
    IN  IF k = 0 THEN <<s>>
        ELSE <<SubSeq(s, 1, k - 1)>> \o Split(SubSeq(s, k + 1, Len(s)))

\* format!("lq.{}", name)
to_fqn(name) == <<108, 113, 46>> \o name

\* ------------------------------------------------------------------------
\* The schema catalog (pool, liqi.desc) and the service index (proto_json,
\* liqi.json) of Parser::new (parser.rs 47-58): a small catalog in the shape
\* of the bundled one.  Names are byte strings; a descriptor is identified
\* by its full name.
\* ------------------------------------------------------------------------

NameQa == <<81, 97>>      \* "Qa"
NameRa == <<82, 97>>      \* "Ra"
NameQb == <<81, 98>>      \* "Qb"
NameRb == <<82, 98>>      \* "Rb"
NameN  == <<78>>          \* "N"
NameAP == <<65, 80>>      \* "AP"
NameAX == <<65, 88>>      \* "AX"
NameND == <<78, 68>>      \* "ND"
NameZz == <<90, 122>>     \* "Zz", in no catalog
SegLq  == <<108, 113>>    \* "lq"
SegL   == <<76>>          \* "L"

Fld(num, name, type) == [num |-> num, name |-> name, type |-> type]

\* the message types of the catalog: full name -> declared fields
PoolTypes ==
    { [fqn |-> to_fqn(NameQa), fields |-> <<Fld(1, "account", "uint32")>>],
      [fqn |-> to_fqn(NameRa), fields |-> <<Fld(1, "token", "string")>>],
      [fqn |-> to_fqn(NameQb), fields |-> <<Fld(1, "room", "string")>>],
      [fqn |-> to_fqn(NameRb), fields |-> <<Fld(1, "seat", "uint32")>>],
      [fqn |-> to_fqn(NameN),  fields |-> <<Fld(1, "seat", "uint32")>>],
      [fqn |-> to_fqn(NameAP), fields |-> <<Fld(1, "step", "uint32"),
                                            Fld(2, "name", "string"),
                                            Fld(3, "data", "bytes")>>],
      [fqn |-> to_fqn(NameAX), fields |-> <<Fld(1, "seat", "uint32")>>],
      [fqn |-> to_fqn(NameND), fields |-> <<Fld(1, "data", "bytes")>>] }

PoolNames == { t.fqn : t \in PoolTypes }

\* pool.get_message_by_name(fqn).is_some()
PoolHas(fqn) == fqn \in PoolNames

\* the declared fields of a descriptor
FieldsOf(fqn) == (CHOOSE t \in PoolTypes : t.fqn = fqn).fields

\* proto_json["nested"][lq]["nested"][service]["methods"][rpc]: the methods
\* of the index with their requestType / responseType names
Methods ==
    { [lq |-> SegLq, service |-> SegL, rpc |-> <<97>>,  req |-> NameQa, res |-> NameRa],
      [lq |-> SegLq, service |-> SegL, rpc |-> <<98>>,  req |-> NameQb, res |-> NameRb],
      [lq |-> SegLq, service |-> SegL, rpc |-> <<99>>,  req |-> NameQa, res |-> NameZz],
      [lq |-> SegLq, service |-> SegL, rpc |-> <<100>>, req |-> NameZz, res |-> NameRa] }

\* serde_json indexing yields Null on a missing path
HasMethod(lq, service, rpc) ==
    \E m \in Methods : m.lq = lq /\ m.service = service /\ m.rpc = rpc

MethodOf(lq, service, rpc) ==
    CHOOSE m \in Methods : m.lq = lq /\ m.service = service /\ m.rpc = rpc

\* ------------------------------------------------------------------------
\* base64 (BASE64_STANDARD, parser.rs 96; the JSON form of a bytes field)
\* Text is a sequence of character codes.
\* ------------------------------------------------------------------------

\* the character of a 6-bit value: A-Z a-z 0-9 + /
B64Char(v) ==
    IF v < 26 THEN 65 + v
    ELSE IF v < 52 THEN 97 + (v - 26)
    ELSE IF v < 62 THEN 48 + (v - 52)
    ELSE IF v = 62 THEN 43 ELSE 47

IsB64Char(c) == c \in (65..90) \cup (97..122) \cup (48..57) \cup {43, 47}

\* the 6-bit value of a character of the alphabet
B64Val(c) ==
    IF c \in 65..90 THEN c - 65
    ELSE IF c \in 97..122 THEN c - 97 + 26
    ELSE IF c \in 48..57 THEN c - 48 + 52
    ELSE IF c = 43 THEN 62 ELSE 63

RECURSIVE B64Encode(_)
B64Encode(bytes) ==
    IF Len(bytes) = 0 THEN <<>>
    ELSE IF Len(bytes) = 1
    THEN <<B64Char(bytes[1] \div 4), B64Char((bytes[1] % 4) * 16), 61, 61>>
    ELSE IF Len(bytes) = 2
    THEN <<B64Char(bytes[1] \div 4),
           B64Char((bytes[1] % 4) * 16 + bytes[2] \div 16),
           B64Char((bytes[2] % 16) * 4), 61>>
    ELSE <<B64Char(bytes[1] \div 4),
           B64Char((bytes[1] % 4) * 16 + bytes[2] \div 16),
           B64Char((bytes[2] % 16) * 4 + bytes[3] \div 64),
           B64Char(bytes[3] % 64)>> \o B64Encode(SubSeq(bytes, 4, Len(bytes)))

B64Ok(bytes) == [ok |-> TRUE, bytes |-> bytes]
B64Err == [ok |-> FALSE, bytes |-> NoBytes]

\* canonical, padded decoding; anything else is a DecodeError
RECURSIVE B64Decode(_)
B64Decode(text) ==
    IF Len(text) = 0 THEN B64Ok(<<>>)
    ELSE IF Len(text) < 4 \/ ~IsB64Char(text[1]) \/ ~IsB64Char(text[2]) THEN B64Err
    ELSE LET v1 == B64Val(text[1])
             v2 == B64Val(text[2])
             last == Len(text) = 4
         IN  IF last /\ text[3] = 61 /\ text[4] = 61
             THEN IF v2 % 16 = 0 THEN B64Ok(<<v1 * 4 + v2 \div 16>>) ELSE B64Err
             ELSE IF ~IsB64Char(text[3]) THEN B64Err
             ELSE LET v3 == B64Val(text[3])
                  IN  IF last /\ text[4] = 61
                      THEN IF v3 % 4 = 0
                           THEN B64Ok(<<v1 * 4 + v2 \div 16, (v2 % 16) * 16 + v3 \div 4>>)
                           ELSE B64Err
                      ELSE IF ~IsB64Char(text[4]) THEN B64Err
                      ELSE LET rest == B64Decode(SubSeq(text, 5, Len(text)))
                           IN  IF rest.ok
                               THEN B64Ok(<<v1 * 4 + v2 \div 16,
                                            (v2 % 16) * 16 + v3 \div 4,
                                            (v3 % 4) * 64 + B64Val(text[4])>> \o rest.bytes)
                               ELSE B64Err

\* ------------------------------------------------------------------------
\* DynamicMessage::decode and my_serialize (parser.rs 39-44, 86-87, 131-132,
\* 152-153): protobuf wire decoding against a descriptor, then the JSON
\* value of the message.  A JSON object is the sequence of its members.
\* ------------------------------------------------------------------------

\* SERIALIZE_OPTIONS: fields at their default value are emitted too
SkipDefaultFields == FALSE

WireTypeOf(type) == IF type = "uint32" THEN 0 ELSE 2

Declared(fields, num) == \E k \in 1..Len(fields) : fields[k].num = num

DeclOf(fields, num) == fields[CHOOSE k \in 1..Len(fields) : fields[k].num = num]

\* a protobuf varint at position i; running off the buffer is an error
RECURSIVE ProtoVarInt(_, _, _, _)
ProtoVarInt(data, i, val, shift) ==
    IF i >= Len(data) THEN [ok |-> FALSE, val |-> 0, i |-> i]
    ELSE LET v2 == val + (At(data, i) % 128) * Pow2(shift)
         IN  IF At(data, i) < 128
             THEN [ok |-> TRUE, val |-> v2, i |-> i + 1]
             ELSE ProtoVarInt(data, i + 1, v2, shift + 7)

WireErr == [ok |-> FALSE, got |-> <<>>]

\* the field loop of the wire decoder; got collects the declared fields read
RECURSIVE WireLoop(_, _, _, _)
WireLoop(fields, data, i, got) ==
    IF i >= Len(data) THEN [ok |-> TRUE, got |-> got]
    ELSE LET key == ProtoVarInt(data, i, 0, 0)
             num == key.val \div 8
             wt  == key.val % 8
             known == Declared(fields, num)
             v == ProtoVarInt(data, key.i, 0, 0)
         IN  IF ~key.ok \/ num = 0 THEN WireErr
             ELSE IF known /\ WireTypeOf(DeclOf(fields, num).type) # wt THEN WireErr
             ELSE CASE wt = 0 ->
                        IF ~v.ok THEN WireErr
                        ELSE WireLoop(fields, data, v.i,
                                 IF known THEN Append(got, [num |-> num, val |-> <<v.val>>])
                                 ELSE got)
                    [] wt = 2 ->
                        IF ~v.ok \/ v.i + v.val > Len(data) THEN WireErr
                        ELSE LET bytes == Slice(data, v.i, v.i + v.val)
                             IN  IF known /\ DeclOf(fields, num).type = "string"
                                          /\ ~FromUtf8Ok(bytes)
                                 THEN WireErr
                                 ELSE WireLoop(fields, data, v.i + v.val,
                                          IF known
                                          THEN Append(got, [num |-> num, val |-> bytes])
                                          ELSE got)
                    [] wt = 1 ->
                        IF key.i + 8 > Len(data) THEN WireErr
                        ELSE WireLoop(fields, data, key.i + 8, got)
                    [] wt = 5 ->
                        IF key.i + 4 > Len(data) THEN WireErr
                        ELSE WireLoop(fields, data, key.i + 4, got)
                    [] OTHER -> WireErr

\* the last value read for field num (a scalar field keeps the last one)
HasGot(got, num) == \E k \in 1..Len(got) : got[k].num = num

LastGot(got, num) ==
    got[CHOOSE k \in 1..Len(got) :
            got[k].num = num /\ \A j \in (k + 1)..Len(got) : got[j].num # num].val

JsonMember(name, kind, val, obj) == [name |-> name, kind |-> kind, val |-> val, obj |-> obj]

\* the JSON member of one declared field
MemberOf(f, got) ==
    LET raw == IF HasGot(got, f.num) THEN LastGot(got, f.num)
               ELSE IF f.type = "uint32" THEN <<0>> ELSE <<>>
    IN  CASE f.type = "uint32" -> JsonMember(f.name, "num", raw, <<>>)
          [] f.type = "string" -> JsonMember(f.name, "str", raw, <<>>)
          [] OTHER             -> JsonMember(f.name, "str", B64Encode(raw), <<>>)

\* my_serialize: the declared fields in declaration order
my_serialize(fields, got) ==
    LET shown == IF SkipDefaultFields
                 THEN SelectSeq(fields, LAMBDA f : HasGot(got, f.num))
                 ELSE fields
    IN  [k \in 1..Len(shown) |-> MemberOf(shown[k], got)] \o <<>>

\* DynamicMessage::decode(desc, data) followed by my_serialize
DecodeJson(fqn, data) ==
    LET w == WireLoop(FieldsOf(fqn), data, 0, <<>>)
    IN  IF w.ok THEN [ok |-> TRUE, obj |-> my_serialize(FieldsOf(fqn), w.got)]
        ELSE [ok |-> FALSE, obj |-> <<>>]

\* serde_json Value::get(key) on an object
HasMember(obj, name) == \E k \in 1..Len(obj) : obj[k].name = name

GetMember(obj, name) == obj[CHOOSE k \in 1..Len(obj) : obj[k].name = name]

\* the object left as it was, the insert dropped
SetMemberKeep(obj, name, member) == obj

\* Map::insert(key, value) on an object that has the key
SetMember(obj, name, member) ==
    [k \in 1..Len(obj) |-> IF obj[k].name = name THEN member ELSE obj[k]] \o <<>>

\* ------------------------------------------------------------------------
\* Parser::parse (parser.rs 60-163)
\* ------------------------------------------------------------------------

NoObj == <<>>

\* Ok(LiqiMessage { id, msg_type, method_name, data })
ResOk(arm, id, method_name, data) ==
    [kind |-> "ok", arm |-> arm, id |-> id, msg_type |-> arm,
     method_name |-> method_name, data |-> data, msg |-> "", arg |-> NoBytes]

\* Err(anyhow!(msg, arg))
ResErr(arm, msg, arg) ==
    [kind |-> "err", arm |-> arm, id |-> 0, msg_type |-> "",
     method_name |-> NoBytes, data |-> NoObj, msg |-> msg, arg |-> arg]

\* a panic: the call unwinds and returns nothing
ResPanic(arm, msg) ==
    [kind |-> "panic", arm |-> arm, id |-> 0, msg_type |-> "",
     method_name |-> NoBytes, data |-> NoObj, msg |-> msg, arg |-> NoBytes]

\* the result of a failed buf_to_blocks, as `?` passes it on
ResOfBlocks(arm, b) ==
    IF b.kind = "panic" THEN ResPanic(arm, b.msg) ELSE ResErr(arm, b.msg, b.arg)

\* what one call leaves behind: its result and the decoder's fields
Out(res, total, respond_type) ==
    [res |-> res, total |-> total, respond_type |-> respond_type]

\* the range check off by one at its lower end
ValidTypeByteFromZero(b) == b \in 0..3

\* (1..=3).contains(&msg_type_byte)
ValidTypeByte(b) == b \in 1..3

\* match msg_type_byte { 1 => Notify, 2 => Request, 3 => Response, _ => unreachable!() }
TypeOfByte(b) ==
    CASE b = 1 -> "Notify"
      [] b = 2 -> "Request"
      [] b = 3 -> "Response"
      [] OTHER -> "unreachable"

\* the two bytes read as 16-bit halves of a wider identifier
wide_from_le_halves(b1, b2) == b1 + 65536 * b2

\* the two bytes read in network order
u16_from_be_bytes(b1, b2) == 256 * b1 + b2

\* u16::from_le_bytes([b1, b2]) as usize
u16_from_le_bytes(b1, b2) == b1 + 256 * b2

\* msg_id = self.total (Notify)
NotifyId(total) == total

\* the counter left as it was
NextTotalStuck(total) == total

\* self.total += 1
NextTotal(total) == total + 1

\* the pair stored with the method's last segment in place of the full name
EntryBareName(method_name, resp_type) ==
    [method_name |-> Split(method_name)[Len(Split(method_name))], resp_type |-> resp_type]

\* the pair stored by a Request: (method_name.to_owned(), resp_type)
Entry(method_name, resp_type) ==
    [method_name |-> method_name, resp_type |-> resp_type]

\* an insert that keeps the entry a key already has (entry().or_insert)
RespondInsertKeepFirst(rt, id, entry) ==
    [k \in (DOMAIN rt) \cup {id} |-> IF k \in DOMAIN rt THEN rt[k] ELSE entry]

\* HashMap::insert(msg_id, entry)
RespondInsert(rt, id, entry) ==
    [k \in (DOMAIN rt) \cup {id} |-> IF k = id THEN entry ELSE rt[k]]

\* a lookup by arrival position: the entry of the first key of the map
RespondTakeFirst(rt, id) == rt[CHOOSE k \in DOMAIN rt : \A j \in DOMAIN rt : k <= j]

\* HashMap::remove(&msg_id): the value returned for a key that is present
RespondTake(rt, id) == rt[id]

\* a lookup that leaves the entry in the map (get in place of remove)
RespondRemoveKeep(rt, id) == rt

\* a removal that clears the whole map
RespondRemoveAll(rt, id) == [k \in {} |-> rt[k]]

\* HashMap::remove(&msg_id): the map without the key
RespondRemove(rt, id) == [k \in (DOMAIN rt) \ {id} |-> rt[k]]

\* the nested action of a Notify (parser.rs 88-108): data_obj has a member "data"
NestedAction(obj) ==
    IF ~HasMember(obj, "name") THEN [ok |-> FALSE, msg |-> "No name field", arg |-> NoBytes, obj |-> NoObj]
    ELSE IF GetMember(obj, "name").kind # "str"
    THEN [ok |-> FALSE, msg |-> "name is not a string", arg |-> NoBytes, obj |-> NoObj]
    ELSE LET action_name == GetMember(obj, "name").val
             d == GetMember(obj, "data")
             b64 == IF d.kind = "str" THEN d.val ELSE <<>>
             decoded == B64Decode(b64)
             my_decoded == decode(decoded.bytes)
             action == DecodeJson(to_fqn(action_name), my_decoded)
         IN  IF ~decoded.ok
             THEN [ok |-> FALSE, msg |-> "base64 decode error", arg |-> NoBytes, obj |-> NoObj]
             ELSE IF ~PoolHas(to_fqn(action_name))
             THEN [ok |-> FALSE, msg |-> "Invalid action type", arg |-> action_name, obj |-> NoObj]
             ELSE IF ~action.ok
             THEN [ok |-> FALSE, msg |-> "protobuf decode error", arg |-> NoBytes, obj |-> NoObj]
             ELSE [ok |-> TRUE, msg |-> "", arg |-> NoBytes,
                   obj |-> SetMember(obj, "data", JsonMember("data", "obj", <<>>, action.obj))]

\* MessageType::Notify arm (parser.rs 77-110)
ParseNotify(total, rt, buf) ==
    LET b == buf_to_blocks(SliceFrom(buf, 1))
        method_name == b.method
        list == Split(method_name)
        message_name == list[3]
        v == DecodeJson(to_fqn(message_name), b.data)
        n == NestedAction(v.obj)
        fail(res) == Out(res, total, rt)
    IN  IF b.kind # "ok" THEN fail(ResOfBlocks("Notify", b))
        ELSE IF ~FromUtf8Ok(method_name)
        THEN fail(ResErr("Notify", "invalid utf-8 sequence", NoBytes))
        ELSE IF Len(list) < 3 THEN fail(ResPanic("Notify", "index out of bounds"))
        ELSE IF ~PoolHas(to_fqn(message_name))
        THEN fail(ResErr("Notify", "Invalid message type", message_name))
        ELSE IF ~v.ok THEN fail(ResErr("Notify", "protobuf decode error", NoBytes))
        ELSE IF HasMember(v.obj, "data")
        THEN IF ~n.ok THEN fail(ResErr("Notify", n.msg, n.arg))
             ELSE Out(ResOk("Notify", NotifyId(total), method_name, n.obj),
                      NextTotal(total), rt)
        ELSE Out(ResOk("Notify", NotifyId(total), method_name, v.obj),
                 NextTotal(total), rt)

\* the Request arm with the table insert moved before the payload is decoded
ParseRequestInsertFirst(total, rt, buf) ==
    LET msg_id == u16_from_le_bytes(At(buf, 1), At(buf, 2))
        b == buf_to_blocks(SliceFrom(buf, 3))
        method_name == b.method
        list == Split(method_name)
        proto_domain == MethodOf(list[2], list[3], list[4])
        req_type == to_fqn(proto_domain.req)
        v == DecodeJson(req_type, b.data)
        resp_type == to_fqn(proto_domain.res)
        early == RespondInsert(rt, msg_id, Entry(method_name, resp_type))
    IN  IF Len(buf) < 3 THEN Out(ResPanic("Request", "index out of bounds"), total, rt)
        ELSE IF b.kind # "ok" THEN Out(ResOfBlocks("Request", b), total, rt)
        ELSE IF ~FromUtf8Ok(method_name)
        THEN Out(ResErr("Request", "invalid utf-8 sequence", NoBytes), total, rt)
        ELSE IF Len(list) < 4 THEN Out(ResPanic("Request", "index out of bounds"), total, rt)
        ELSE IF ~HasMethod(list[2], list[3], list[4])
        THEN Out(ResErr("Request", "Invalid request type", NoBytes), total, rt)
        ELSE IF ~PoolHas(req_type)
        THEN Out(ResErr("Request", "Invalid request type", proto_domain.req), total, rt)
        ELSE IF ~PoolHas(resp_type)
        THEN Out(ResErr("Request", "Invalid response type", proto_domain.res), total, rt)
        ELSE IF ~v.ok
        THEN Out(ResErr("Request", "protobuf decode error", NoBytes), total, early)
        ELSE Out(ResOk("Request", msg_id, method_name, v.obj), NextTotal(total), early)

\* MessageType::Request arm (parser.rs 111-142)
ParseRequest(total, rt, buf) ==
    LET msg_id == u16_from_le_bytes(At(buf, 1), At(buf, 2))
        b == buf_to_blocks(SliceFrom(buf, 3))
        method_name == b.method
        list == Split(method_name)
        lq == list[2]
        service == list[3]
        rpc == list[4]
        proto_domain == MethodOf(lq, service, rpc)
        req_type == to_fqn(proto_domain.req)
        v == DecodeJson(req_type, b.data)
        resp_type == to_fqn(proto_domain.res)
        fail(res) == Out(res, total, rt)
    IN  IF Len(buf) < 3 THEN fail(ResPanic("Request", "index out of bounds"))
        ELSE IF b.kind # "ok" THEN fail(ResOfBlocks("Request", b))
        ELSE IF ~FromUtf8Ok(method_name)
        THEN fail(ResErr("Request", "invalid utf-8 sequence", NoBytes))
        ELSE IF Len(list) < 4 THEN fail(ResPanic("Request", "index out of bounds"))
        ELSE IF ~HasMethod(lq, service, rpc)
        THEN fail(ResErr("Request", "Invalid request type", NoBytes))
        ELSE IF ~PoolHas(req_type)
        THEN fail(ResErr("Request", "Invalid request type", proto_domain.req))
        ELSE IF ~v.ok THEN fail(ResErr("Request", "protobuf decode error", NoBytes))
        ELSE IF ~PoolHas(resp_type)
        THEN fail(ResErr("Request", "Invalid response type", proto_domain.res))
        ELSE Out(ResOk("Request", msg_id, method_name, v.obj),
                 NextTotal(total),
                 RespondInsert(rt, msg_id, Entry(method_name, resp_type)))

\* MessageType::Response arm (parser.rs 143-154)
ParseResponse(total, rt, buf) ==
    LET msg_id == u16_from_le_bytes(At(buf, 1), At(buf, 2))
        b == buf_to_blocks(SliceFrom(buf, 3))
        taken == RespondTake(rt, msg_id)
        left == RespondRemove(rt, msg_id)
        v == DecodeJson(taken.resp_type, b.data)
    IN  IF Len(buf) < 3 THEN Out(ResPanic("Response", "index out of bounds"), total, rt)
        ELSE IF b.kind # "ok" THEN Out(ResOfBlocks("Response", b), total, rt)
        ELSE IF Len(b.method) # 0
        THEN Out(ResPanic("Response", "assertion failed: method.is_empty()"), total, rt)
        ELSE IF msg_id \notin DOMAIN rt
        THEN Out(ResErr("Response", "No corresponding request", NoBytes), total, rt)
        ELSE IF ~v.ok
        THEN Out(ResErr("Response", "protobuf decode error", NoBytes), total, left)
        ELSE Out(ResOk("Response", msg_id, taken.method_name, v.obj),
                 NextTotal(total), left)

\* Parser::parse(&mut self, buf)
parse(total, rt, buf) ==
    IF Len(buf) = 0 THEN Out(ResPanic("none", "index out of bounds"), total, rt)
    ELSE IF ~ValidTypeByte(At(buf, 0))
    THEN Out(ResErr("none", "Invalid message type", <<At(buf, 0)>>), total, rt)
    ELSE CASE TypeOfByte(At(buf, 0)) = "Notify"   -> ParseNotify(total, rt, buf)
           [] TypeOfByte(At(buf, 0)) = "Request"  -> ParseRequest(total, rt, buf)
           [] TypeOfByte(At(buf, 0)) = "Response" -> ParseResponse(total, rt, buf)
           [] OTHER -> Out(ResPanic("none", "entered unreachable code"), total, rt)

\* ------------------------------------------------------------------------
\* The frames submitted to the decoder
\* ------------------------------------------------------------------------

\* a sub-buffer of two length-delimited blocks: tags 0x0A (id 1) and 0x12 (id 2)
TwoBlocks(n, p) == <<10, Len(n)>> \o n \o <<18, Len(p)>> \o p

\* the identifier bytes (frame[1], frame[2]) used by the frames
IdBytes == { <<52, 18>>, <<18, 52>> }

Dotted(a, b) == a \o <<46>> \o b

\* method names of Request frames
ReqNameA == Dotted(Dotted(Dotted(<<>>, SegLq), SegL), <<97>>)    \* ".lq.L.a"
ReqNameB == Dotted(Dotted(Dotted(<<>>, SegLq), SegL), <<98>>)    \* ".lq.L.b"
ReqNameC == Dotted(Dotted(Dotted(<<>>, SegLq), SegL), <<99>>)    \* ".lq.L.c"
ReqNameD == Dotted(Dotted(Dotted(<<>>, SegLq), SegL), <<100>>)   \* ".lq.L.d"
ReqNameE == Dotted(Dotted(Dotted(<<>>, SegLq), SegL), <<101>>)   \* ".lq.L.e", not indexed
ReqNameShort == Dotted(Dotted(<<>>, SegLq), SegL)                \* ".lq.L"
NameBadUtf8 == <<255>>

\* names of Notify frames
NotifyN  == Dotted(Dotted(<<>>, SegLq), NameN)      \* ".lq.N"
NotifyAP == Dotted(Dotted(<<>>, SegLq), NameAP)     \* ".lq.AP"
NotifyND == Dotted(Dotted(<<>>, SegLq), NameND)     \* ".lq.ND"
NotifyZz == Dotted(Dotted(<<>>, SegLq), NameZz)     \* ".lq.Zz", not in the catalog
NotifyShort == Dotted(<<>>, SegLq)                  \* ".lq"

\* payloads: field 1 as a varint, field 1 as a byte string, nothing, a cut varint
PayVarint == <<8, 1>>
PayBytes  == <<10, 1, 120>>
PayEmpty  == <<>>
PayCut    == <<8>>

\* payloads of ".lq.AP": name "AX" with the obfuscated bytes of <<8, 1>>, name
\* "Zz", name "AX" with the obfuscated bytes of <<8>>
PayAction    == <<18, 2, 65, 88, 26, 2, 145, 121>>
PayActionZz  == <<18, 2, 90, 122, 26, 2, 145, 121>>
PayActionCut == <<18, 2, 65, 88, 26, 1, 146>>

NotifyFrames ==
    { <<1>> \o TwoBlocks(np[1], np[2]) :
        np \in { <<NotifyN, PayVarint>>, <<NotifyN, PayBytes>>,
                 <<NotifyAP, PayAction>>, <<NotifyAP, PayActionZz>>,
                 <<NotifyAP, PayActionCut>>, <<NotifyAP, PayEmpty>>,
                 <<NotifyND, PayEmpty>>, <<NotifyZz, PayVarint>>,
                 <<NotifyShort, PayVarint>>, <<NameBadUtf8, PayVarint>> } }

RequestFrames ==
    { <<2>> \o id \o TwoBlocks(np[1], np[2]) :
        id \in IdBytes,
        np \in { <<ReqNameA, PayVarint>>, <<ReqNameA, PayBytes>>,
                 <<ReqNameB, PayBytes>>, <<ReqNameC, PayVarint>>,
                 <<ReqNameD, PayVarint>>, <<ReqNameE, PayVarint>>,
                 <<ReqNameShort, PayVarint>>, <<NameBadUtf8, PayVarint>> } }

ResponseFrames ==
    { <<3>> \o id \o TwoBlocks(<<>>, p) : id \in IdBytes, p \in {PayVarint, PayBytes, PayCut} }
    \cup { <<3>> \o id \o TwoBlocks(<<120>>, PayEmpty) : id \in IdBytes }

\* frames that are cut short or whose blocks are malformed
BrokenFrames ==
    { <<>>, <<0>>, <<4>>, <<0, 9>>, <<4, 10, 5>>, <<255, 10, 0, 18, 0>>,
      <<2>>, <<3, 52>>, <<2, 52>>,
      <<1>>, <<2, 52, 18>>, <<3, 52, 18>>,
      <<1, 10, 0>>,                        \* one block
      <<3, 52, 18, 10, 0, 18, 0, 26, 0>>,  \* three blocks
      <<3, 52, 18, 9, 0>>,                 \* block type 1
      <<3, 52, 18, 10, 0, 18, 5, 8>>,      \* length past the end
      <<3, 52, 18, 10, 0, 18>>,            \* tag without a length
      <<3, 52, 18, 8, 0, 18, 0>>,          \* a varint block as the name
      <<1, 8, 0, 18, 0>> }

Frames == NotifyFrames \cup RequestFrames \cup ResponseFrames \cup BrokenFrames

\* ------------------------------------------------------------------------
\* The decoder as a state machine: one parse call per step
\* ------------------------------------------------------------------------

VARIABLES
    total,          \* Parser.total
    respond_type,   \* Parser.respond_type: identifier -> (method name, response schema)
    result,         \* the frame of the last parse call and what the call gave back
    pre,            \* total, respond_type and the history as the last call found them
    hist,           \* history of the frames seen, kept by identifier bytes
    probe           \* a call of one of the pure functions: its argument and value

vars == <<total, respond_type, result, pre, hist, build, probe>>

EmptyMap == <<>>

NoResult ==
    [kind |-> "none", arm |-> "none", id |-> 0, msg_type |-> "",
     method_name |-> NoBytes, data |-> NoObj, msg |-> "", arg |-> NoBytes]

\* the identifier bytes of a frame that has them
KeyOf(buf) == <<At(buf, 1), At(buf, 2)>>

HasKey(buf) == Len(buf) >= 3 /\ At(buf, 0) \in {2, 3}

\* a Response frame whose blocks split into an empty name and a payload, the
\* frames that get as far as the table lookup
ReachesTake(buf) ==
    /\ Len(buf) >= 3
    /\ At(buf, 0) = 3
    /\ LET b == buf_to_blocks(SliceFrom(buf, 3))
       IN  b.kind = "ok" /\ Len(b.method) = 0

\* the name and payload blocks of a frame whose blocks split
NameOf(buf) == buf_to_blocks(SliceFrom(buf, IF At(buf, 0) = 1 THEN 1 ELSE 3)).method

PayloadOf(buf) == buf_to_blocks(SliceFrom(buf, IF At(buf, 0) = 1 THEN 1 ELSE 3)).data

\* the response schema the service index declares for a Request's method name
DeclaredResponse(name) ==
    LET list == Split(name) IN to_fqn(MethodOf(list[2], list[3], list[4]).res)

DeclaredRequest(name) ==
    LET list == Split(name) IN to_fqn(MethodOf(list[2], list[3], list[4]).req)

Without(seq, x) == SelectSeq(seq, LAMBDA y : y # x)

Elems(seq) == { seq[k] : k \in 1..Len(seq) }

Min2(n) == IF n > 2 THEN 2 ELSE n

\* history after a call on buf that gave back res
HistAfter(h, buf, res) ==
    LET k == KeyOf(buf)
        name == NameOf(buf)
        okReq == res.kind = "ok" /\ At(buf, 0) = 2
        okResp == res.kind = "ok" /\ At(buf, 0) = 3
        okNotify == res.kind = "ok" /\ At(buf, 0) = 1
    IN  [ lastReq |->
              IF okReq
              THEN [q \in (DOMAIN h.lastReq) \cup {k} |->
                        IF q = k
                        THEN [method_name |-> name,
                              resp_type |-> DeclaredResponse(name)]
                        ELSE h.lastReq[q]]
              ELSE h.lastReq,
          order |->
              IF okReq THEN Append(Without(h.order, k), k)
              ELSE IF okResp THEN Without(h.order, k)
              ELSE h.order,
          reqs |->
              IF okReq THEN [h.reqs EXCEPT ![k] = Min2(@ + 1)]
              ELSE IF ReachesTake(buf) THEN [h.reqs EXCEPT ![k] = 0]
              ELSE h.reqs,
          lastNotify |-> IF okNotify THEN res.id ELSE h.lastNotify ]

\* no call of a pure function recorded
NoProbe == [fn |-> "none"]

Init ==
    /\ total = 0
    /\ respond_type = EmptyMap
    /\ result = [buf |-> <<>>, res |-> NoResult]
    /\ pre = [total |-> 0, respond_type |-> EmptyMap, order |-> <<>>, reqs |-> 0,
              lastNotify |-> -1]
    /\ hist = [lastReq |-> EmptyMap, order |-> <<>>, reqs |-> [k \in IdBytes |-> 0],
               lastNotify |-> -1]
    /\ build = "release"
    /\ probe = NoProbe

\* one call parser.parse(buf); a call that panicked ends the decoder's thread
Parse(buf) ==
    /\ result.res.kind # "panic"
    /\ total < MaxTotal
    /\ \E o \in {parse(total, respond_type, buf)} :
           /\ total' = o.total
           /\ respond_type' = o.respond_type
           /\ result' = [buf |-> buf, res |-> o.res]
           /\ pre' = [total |-> total, respond_type |-> respond_type,
                      order |-> hist.order,
                      reqs |-> IF HasKey(buf) THEN hist.reqs[KeyOf(buf)] ELSE 0,
                      lastNotify |-> hist.lastNotify]
           /\ hist' = HistAfter(hist, buf, o.res)
           /\ UNCHANGED <<build, probe>>

Next == \E buf \in Frames : Parse(buf)

Spec == Init /\ [][Next]_vars

\* ------------------------------------------------------------------------
\* The pure functions on their own: buf_to_blocks, parse_var_int and decode
\* are called on buffers drawn from bounded sets, in either build, and probe
\* records the argument and the value of the call.  The functions keep no
\* state between calls, so a behaviour holds one call (and decode once more
\* on its own output).
\* ------------------------------------------------------------------------

\* longest sub-buffer enumerated byte by byte
MaxBufLen == 6

\* most continuation bytes put in front of the last byte of a varint
MaxCont == 11

\* longest name or payload block of a hand-built sub-buffer
MaxFill == 130

\* longest buffer handed to decode on its own
MaxDecodeLen == 20

\* longest buffer of a pair handed to decode, and longest shorter one
MaxPairLen == 257

MaxPrefixLen == 2

\* n bytes b
Fill(b, n) == [j \in 1..n |-> b]

\* the sequences over S of length up to n
SeqsUpTo(S, n) == UNION { [1..k -> S] : k \in 0..n }

\* sub-buffers for buf_to_blocks: 0 is a type-0 tag, the length 0 and the
\* one-byte varint 0; 1 is a tag of type 1 and the length 1; 2 and 10 are
\* type-2 tags and the lengths 2 and 10; 128 is a byte with the continuation bit
BlockBytes == {0, 1, 2, 10, 128}

\* a type-0 block whose varint has k continuation bytes, then an empty type-2 block
LongVarIntBlocks ==
    { <<8>> \o Fill(255, k) \o <<b>> \o <<18, 0>> : k \in 0..MaxCont, b \in {1, 127} }

BlockBufs == SeqsUpTo(BlockBytes, MaxBufLen) \cup LongVarIntBlocks

\* buffers for parse_var_int: short ones byte by byte, and long runs of
\* continuation bytes closed by a last byte
VarIntBufs ==
    SeqsUpTo({0, 1, 127, 128, 255}, 3)
    \cup { Fill(c, k) \o <<b>> : c \in {128, 255}, k \in 0..MaxCont, b \in {0, 1, 2, 127} }
    \cup { Fill(255, k) : k \in 0..MaxCont }

\* the standard base-128 encoding of a length
RECURSIVE EncVarInt(_)
EncVarInt(n) == IF n < 128 THEN <<n>> ELSE <<128 + (n % 128)>> \o EncVarInt(n \div 128)

\* [tag type 2, id1][varint len(n)][n][tag type 2, id2][varint len(p)][p]
EncTwoBlocks(id1, n, id2, p) ==
    <<8 * id1 + 2>> \o EncVarInt(Len(n)) \o n \o <<8 * id2 + 2>> \o EncVarInt(Len(p)) \o p

\* block ids that fit the tag byte
BlockIds == {0, 1, 2, 31}

\* names and payloads of hand-built sub-buffers; some hold tag-like bytes
BlockContents ==
    { <<>>, <<97>>, <<10, 0>>, <<2, 128, 255>>, Fill(46, 127), Fill(46, 128),
      Fill(201, MaxFill) }

\* a buffer of length n whose bytes run through the byte values
Pattern(seed, n) == [j \in 1..n |-> (seed * j + 3 * seed + j \div 9) % 256]

DecodeBufs ==
    SeqsUpTo({0, 255}, 3) \cup { Pattern(seed, n) : seed \in {7, 100}, n \in 0..MaxDecodeLen }

\* pairs (a, b) of buffers where a is a prefix of b
DecodePairs ==
    { <<SubSeq(Pattern(seed, mn[2]), 1, mn[1]), Pattern(seed, mn[2])>> :
        seed \in {7, 100},
        mn \in { x \in (0..MaxPrefixLen) \X (0..MaxPairLen) : x[1] <= x[2] } }

InitPure ==
    /\ total = 0
    /\ respond_type = EmptyMap
    /\ result = [buf |-> <<>>, res |-> NoResult]
    /\ pre = [total |-> 0, respond_type |-> EmptyMap, order |-> <<>>, reqs |-> 0,
              lastNotify |-> -1]
    /\ hist = [lastReq |-> EmptyMap, order |-> <<>>, reqs |-> [k \in IdBytes |-> 0],
               lastNotify |-> -1]
    /\ build \in Builds
    /\ probe = NoProbe

\* the decoder's own fields, which no pure function touches
parser_vars == <<total, respond_type, result, pre, hist, build>>

\* parse_var_int(buf, p)
CallVarInt(buf, p) ==
    /\ probe' = [fn |-> "parse_var_int", buf |-> buf, p |-> p,
                 val |-> parse_var_int(buf, p)]
    /\ UNCHANGED parser_vars

\* buf_to_blocks(buf)
CallBlocks(buf) ==
    /\ probe' = [fn |-> "buf_to_blocks", buf |-> buf, val |-> buf_to_blocks(buf)]
    /\ UNCHANGED parser_vars

\* buf_to_blocks on the hand-built encoding of (n, p)
CallBlocksOfPair(id1, n, id2, p) ==
    /\ probe' = [fn |-> "round_trip", n |-> n, p |-> p, ids |-> <<id1, id2>>,
                 buf |-> EncTwoBlocks(id1, n, id2, p),
                 val |-> buf_to_blocks(EncTwoBlocks(id1, n, id2, p))]
    /\ UNCHANGED parser_vars

\* decode(data)
CallDecode(data) ==
    /\ probe' = [fn |-> "decode", arg |-> data, val |-> decode(data)]
    /\ UNCHANGED parser_vars

\* decode applied to the value of the last decode
CallDecodeAgain ==
    /\ probe.fn = "decode"
    /\ probe' = [fn |-> "decode_twice", arg |-> probe.arg, mid |-> probe.val,
                 val |-> decode(probe.val)]
    /\ UNCHANGED parser_vars

\* decode(a) and decode(b)
CallDecodePair(a, b) ==
    /\ probe' = [fn |-> "decode_pair", a |-> a, b |-> b,
                 va |-> decode(a), vb |-> decode(b)]
    /\ UNCHANGED parser_vars

\* no pure function has been called yet
Idle == probe = NoProbe

NextPure ==
    \/ Idle /\ \E buf \in VarIntBufs : \E p \in 0..Len(buf) : CallVarInt(buf, p)
    \/ Idle /\ \E buf \in BlockBufs : CallBlocks(buf)
    \/ Idle /\ \E id1 \in BlockIds, id2 \in BlockIds :
                   \E n \in BlockContents, p \in BlockContents :
                       CallBlocksOfPair(id1, n, id2, p)
    \/ Idle /\ \E data \in DecodeBufs : CallDecode(data)
    \/ CallDecodeAgain
    \/ Idle /\ \E ab \in DecodePairs : CallDecodePair(ab[1], ab[2])

SpecPure == InitPure /\ [][NextPure]_vars

\* ------------------------------------------------------------------------
\* Properties.  Each is a predicate on the last call: result holds its frame
\* and what it gave back, pre what it found, hist the frames before and
\* including it.
\* ------------------------------------------------------------------------

Buf == result.buf

Res == result.res

IsNotifyFrame == Len(Buf) >= 1 /\ At(Buf, 0) = 1

IsRequestFrame == Len(Buf) >= 1 /\ At(Buf, 0) = 2

IsResponseFrame == Len(Buf) >= 1 /\ At(Buf, 0) = 3

\* the identifier the frame's two bytes stand for
IdOfKey(k) == k[1] + 256 * k[2]

\* the keys whose Request was decoded and not yet answered by a decoded Response
Open(order) == Elems(order)

\* C1: a decoded Response with identifier i carries the method name, and is
\* decoded with the response schema, of the most recent decoded Request with
\* identifier i; its own name block is empty and chooses nothing.
C1_ResponseUsesRequestSchema ==
    (IsResponseFrame /\ Res.kind = "ok") =>
        /\ KeyOf(Buf) \in DOMAIN hist.lastReq
        /\ Len(NameOf(Buf)) = 0
        /\ Res.method_name = hist.lastReq[KeyOf(Buf)].method_name
        /\ DecodeJson(hist.lastReq[KeyOf(Buf)].resp_type, PayloadOf(Buf)).ok
        /\ Res.data = DecodeJson(hist.lastReq[KeyOf(Buf)].resp_type, PayloadOf(Buf)).obj

\* a Response decoded with the schema of ".lq.L.b" while both schemas are on record
C1_Witness ==
    /\ IsResponseFrame /\ Res.kind = "ok"
    /\ Res.method_name = ReqNameB
    /\ \E k \in DOMAIN hist.lastReq : hist.lastReq[k].method_name = ReqNameA

\* C2: a Response frame (two blocks, empty name) whose identifier has no
\* decoded Request since the last decoded Response with that identifier, or
\* no decoded Request at all, fails with "No corresponding request".
C2_EntryTakenOnce ==
    (ReachesTake(Buf) /\ KeyOf(Buf) \notin Open(pre.order)) =>
        /\ Res.kind = "err"
        /\ Res.msg = "No corresponding request"

\* the second Response to an answered Request
C2_Witness ==
    /\ ReachesTake(Buf)
    /\ KeyOf(Buf) \notin Open(pre.order)
    /\ KeyOf(Buf) \in DOMAIN hist.lastReq
    /\ Res.msg = "No corresponding request"

\* C3: a call that returns an error leaves total and respond_type as it
\* found them.
C3_ErrorLeavesState ==
    Res.kind = "err" => (total = pre.total /\ respond_type = pre.respond_type)

\* every step of the Request arm before the insert succeeds on this frame
RequestStepsOk(buf) ==
    /\ Len(buf) >= 3
    /\ buf_to_blocks(SliceFrom(buf, 3)).kind = "ok"
    /\ FromUtf8Ok(NameOf(buf))
    /\ Len(Split(NameOf(buf))) >= 4
    /\ HasMethod(Split(NameOf(buf))[2], Split(NameOf(buf))[3], Split(NameOf(buf))[4])
    /\ PoolHas(DeclaredRequest(NameOf(buf)))
    /\ DecodeJson(DeclaredRequest(NameOf(buf)), PayloadOf(buf)).ok
    /\ PoolHas(DeclaredResponse(NameOf(buf)))

\* C4: a Request frame changes the table only when its name, request schema,
\* payload and response schema have all been obtained, and then by the one
\* entry (method name, response schema) under its identifier; a Request frame
\* that fails at any step leaves the table as it was.
C4_InsertAfterAllSteps ==
    IsRequestFrame =>
        IF RequestStepsOk(Buf)
        THEN /\ Res.kind = "ok"
             /\ respond_type =
                    [k \in (DOMAIN pre.respond_type) \cup {IdOfKey(KeyOf(Buf))} |->
                        IF k = IdOfKey(KeyOf(Buf))
                        THEN [method_name |-> NameOf(Buf),
                              resp_type |-> DeclaredResponse(NameOf(Buf))]
                        ELSE pre.respond_type[k]]
        ELSE /\ Res.kind # "ok"
             /\ respond_type = pre.respond_type

\* a Request whose payload does not decode, sent while its identifier is pending
C4_Witness ==
    /\ IsRequestFrame
    /\ Res.msg = "protobuf decode error"
    /\ IdOfKey(KeyOf(Buf)) \in DOMAIN respond_type

\* C5: a decoded Request whose identifier is already pending replaces the
\* entry and adds none; the first Response after two such Requests, when it
\* is decoded, is decoded with the later Request's schema and method name and
\* takes the entry away; a Response frame that follows with no Request in
\* between fails as unmatched.
C5_LastWriteWins ==
    /\ (IsRequestFrame /\ Res.kind = "ok" /\ pre.reqs >= 1) =>
          /\ DOMAIN respond_type = DOMAIN pre.respond_type
          /\ respond_type[Res.id] = [method_name |-> NameOf(Buf),
                                     resp_type |-> DeclaredResponse(NameOf(Buf))]
    /\ (IsResponseFrame /\ Res.kind = "ok" /\ pre.reqs = 2) =>
          /\ Res.method_name = hist.lastReq[KeyOf(Buf)].method_name
          /\ Res.data = DecodeJson(hist.lastReq[KeyOf(Buf)].resp_type, PayloadOf(Buf)).obj
          /\ Res.id \notin DOMAIN respond_type
    /\ (ReachesTake(Buf) /\ pre.reqs = 0) => Res.msg = "No corresponding request"

\* two Requests with one identifier, then the Response, decoded
C5_Witness == IsResponseFrame /\ Res.kind = "ok" /\ pre.reqs = 2

\* C6: a decoded Response takes the entry of its own identifier, whatever the
\* order in which the pending Requests arrived, and leaves every other entry
\* of the table as it was.
C6_LookupByIdentifier ==
    (IsResponseFrame /\ Res.kind = "ok") =>
        /\ KeyOf(Buf) \in Open(pre.order)
        /\ pre.respond_type[IdOfKey(KeyOf(Buf))] =
               [method_name |-> Res.method_name,
                resp_type |-> hist.lastReq[KeyOf(Buf)].resp_type]
        /\ DOMAIN respond_type = (DOMAIN pre.respond_type) \ {IdOfKey(KeyOf(Buf))}
        /\ \A k \in DOMAIN respond_type : respond_type[k] = pre.respond_type[k]

\* the Response to the later of two pending Requests is decoded first
C6_Witness ==
    /\ IsResponseFrame /\ Res.kind = "ok"
    /\ Len(pre.order) = 2
    /\ pre.order[2] = KeyOf(Buf)
    /\ Cardinality(DOMAIN respond_type) = 1

\* C7: a decoded Notify gets the counter value the call found, which is
\* above the identifier of every earlier Notify, and every decoded frame of
\* any kind leaves the counter one higher.
C7_NotifyIdIsCounter ==
    /\ (IsNotifyFrame /\ Res.kind = "ok") =>
          (Res.id = pre.total /\ Res.id > pre.lastNotify)
    /\ Res.kind = "ok" => total = pre.total + 1

\* a Notify decoded after an earlier Notify and a frame of another kind
C7_Witness ==
    /\ IsNotifyFrame /\ Res.kind = "ok"
    /\ pre.lastNotify >= 0
    /\ Res.id > pre.lastNotify + 1

\* C8: a non-empty frame whose first byte is not 1, 2 or 3 gets the error
\* "Invalid message type" naming the byte, whatever follows the byte, and
\* leaves counter and table alone; bytes 1, 2, 3 enter the Notify, Request
\* and Response arms.
C8_TypeByte ==
    /\ (Len(Buf) >= 1 /\ At(Buf, 0) \notin {1, 2, 3}) =>
          /\ Res.kind = "err"
          /\ Res.msg = "Invalid message type"
          /\ Res.arg = <<At(Buf, 0)>>
          /\ Res.arm = "none"
          /\ total = pre.total
          /\ respond_type = pre.respond_type
    /\ IsNotifyFrame => Res.arm = "Notify"
    /\ IsRequestFrame => Res.arm = "Request"
    /\ IsResponseFrame => Res.arm = "Response"
    /\ Res.kind = "ok" => Res.msg_type = Res.arm

\* byte 0 in front of a block of a type the splitter refuses
C8_Witness ==
    /\ Buf = <<0, 9>>
    /\ Res.msg = "Invalid message type"

\* C9: every call returns a decoded message or an error to its caller.
C9_ParseReturns == Res.kind \in {"none", "ok", "err"}

\* C10: the identifier of a decoded Request or Response is frame[1] +
\* 256 * frame[2], within 0..65535, and the table holds exactly the
\* identifiers of the byte pairs with a decoded Request and no Response frame
\* looked up since.
C10_LittleEndianId ==
    /\ (HasKey(Buf) /\ Res.kind = "ok") =>
          /\ Res.id = At(Buf, 1) + 256 * At(Buf, 2)
          /\ Res.id \in 0..65535
    /\ DOMAIN respond_type = { IdOfKey(k) : k \in { q \in IdBytes : hist.reqs[q] > 0 } }

\* bytes 0x34, 0x12 read as 0x1234 while 0x3412 is pending too
C10_Witness ==
    /\ IsRequestFrame /\ Res.kind = "ok"
    /\ KeyOf(Buf) = <<52, 18>>
    /\ Res.id = 4660
    /\ DOMAIN respond_type = {4660, 13330}

\* the name block of the frame is text with at least n segments
NameSplits(buf, n) ==
    /\ Len(buf) >= (IF At(buf, 0) = 1 THEN 1 ELSE 3)
    /\ buf_to_blocks(SliceFrom(buf, IF At(buf, 0) = 1 THEN 1 ELSE 3)).kind = "ok"
    /\ FromUtf8Ok(NameOf(buf))
    /\ Len(Split(NameOf(buf))) >= n

\* the call gave back an error carrying one of the names (not an empty
\* one), no message, and the table as it was
LookupError(names) ==
    /\ Res.kind = "err"
    /\ Res.arg \in names \ {NoBytes}
    /\ Res.data = NoObj
    /\ respond_type = pre.respond_type

\* C11: a failed schema lookup (Notify type name absent from the catalog,
\* Request path missing from the service index, declared request or response
\* type absent from the catalog) gives an error that carries the offending
\* name, no decoded message, and nothing inserted into the table.
C11_LookupErrorCarriesName ==
    /\ (IsNotifyFrame /\ NameSplits(Buf, 3)
            /\ ~PoolHas(to_fqn(Split(NameOf(Buf))[3]))) =>
          LookupError({Split(NameOf(Buf))[3]})
    /\ (IsRequestFrame /\ NameSplits(Buf, 4)
            /\ ~HasMethod(Split(NameOf(Buf))[2], Split(NameOf(Buf))[3],
                          Split(NameOf(Buf))[4])) =>
          LookupError(Elems(Split(NameOf(Buf))) \cup {NameOf(Buf)})
    /\ (IsRequestFrame /\ NameSplits(Buf, 4)
            /\ HasMethod(Split(NameOf(Buf))[2], Split(NameOf(Buf))[3],
                         Split(NameOf(Buf))[4])
            /\ ~PoolHas(DeclaredRequest(NameOf(Buf)))) =>
          LookupError({MethodOf(Split(NameOf(Buf))[2], Split(NameOf(Buf))[3],
                                Split(NameOf(Buf))[4]).req})
    /\ (IsRequestFrame /\ NameSplits(Buf, 4)
            /\ HasMethod(Split(NameOf(Buf))[2], Split(NameOf(Buf))[3],
                         Split(NameOf(Buf))[4])
            /\ PoolHas(DeclaredRequest(NameOf(Buf)))
            /\ DecodeJson(DeclaredRequest(NameOf(Buf)), PayloadOf(Buf)).ok
            /\ ~PoolHas(DeclaredResponse(NameOf(Buf)))) =>
          LookupError({MethodOf(Split(NameOf(Buf))[2], Split(NameOf(Buf))[3],
                                Split(NameOf(Buf))[4]).res})

\* the Notify frame's payload decodes with the schema its name block names
NotifyDecodes(buf) ==
    /\ NameSplits(buf, 3)
    /\ PoolHas(to_fqn(Split(NameOf(buf))[3]))
    /\ DecodeJson(to_fqn(Split(NameOf(buf))[3]), PayloadOf(buf)).ok

\* V: the payload of the Notify frame as decoded with its own schema
NotifyValue(buf) == DecodeJson(to_fqn(Split(NameOf(buf))[3]), PayloadOf(buf)).obj

\* the bytes the payload carries on the wire for the field named "data"
WireData(buf) ==
    LET fields == FieldsOf(to_fqn(Split(NameOf(buf))[3]))
        num == fields[CHOOSE k \in 1..Len(fields) : fields[k].name = "data"].num
        got == WireLoop(fields, PayloadOf(buf), 0, <<>>).got
    IN  IF HasGot(got, num) THEN LastGot(got, num) ELSE <<>>

\* V has a member "data" and a member "name" that is a string
HasAction(buf) ==
    /\ HasMember(NotifyValue(buf), "data")
    /\ HasMember(NotifyValue(buf), "name")
    /\ GetMember(NotifyValue(buf), "name").kind = "str"

\* the nested value: the wire bytes of "data" deobfuscated and decoded with
\* the schema that "name" names
ActionValue(buf) ==
    DecodeJson(to_fqn(GetMember(NotifyValue(buf), "name").val), decode(WireData(buf)))

\* C12: a decoded Notify whose V has `data` and `name` carries under `data`
\* the structured value of the deobfuscated bytes decoded with the schema
\* `name` names, not the base64 string, and every other member of V as it
\* was; when the nested schema is absent or the nested bytes do not decode
\* the call fails and the counter stays; a Notify whose V has no `data`
\* carries V unchanged.
C12_NestedActionDecoded ==
    (IsNotifyFrame /\ NotifyDecodes(Buf)) =>
        /\ (HasAction(Buf) /\ Res.kind = "ok") =>
              /\ PoolHas(to_fqn(GetMember(NotifyValue(Buf), "name").val))
              /\ ActionValue(Buf).ok
              /\ GetMember(Res.data, "data").kind = "obj"
              /\ GetMember(Res.data, "data").obj = ActionValue(Buf).obj
              /\ Len(Res.data) = Len(NotifyValue(Buf))
              /\ \A k \in 1..Len(Res.data) :
                     NotifyValue(Buf)[k].name # "data" => Res.data[k] = NotifyValue(Buf)[k]
        /\ (HasAction(Buf)
                /\ (~PoolHas(to_fqn(GetMember(NotifyValue(Buf), "name").val))
                    \/ ~ActionValue(Buf).ok)) =>
              /\ Res.kind = "err"
              /\ total = pre.total
        /\ ~HasMember(NotifyValue(Buf), "data") =>
              /\ Res.kind = "ok"
              /\ Res.data = NotifyValue(Buf)

\* ".lq.AP" carrying the action "AX" whose obfuscated bytes stand for <<8, 1>>
C12_Witness ==
    /\ Buf = <<1>> \o TwoBlocks(NotifyAP, PayAction)
    /\ Res.kind = "ok"
    /\ GetMember(Res.data, "data").kind = "obj"
    /\ GetMember(NotifyValue(Buf), "data").kind = "str"

C20_KeysAreU16 ==
    /\ DOMAIN respond_type \subseteq 0..65535
    /\ Cardinality(DOMAIN respond_type) <= 65536
    /\ (IsRequestFrame /\ Res.kind = "ok" /\ Res.id \in DOMAIN pre.respond_type) =>
          /\ DOMAIN respond_type = DOMAIN pre.respond_type
          /\ Cardinality(DOMAIN respond_type) = Cardinality(DOMAIN pre.respond_type)

\* a Request of ".lq.L.b" takes the place of the pending ".lq.L.a" under one key
C20_Witness ==
    /\ IsRequestFrame /\ Res.kind = "ok"
    /\ Res.id \in DOMAIN pre.respond_type
    /\ pre.respond_type[Res.id].method_name = ReqNameA
    /\ respond_type[Res.id].method_name = ReqNameB
    /\ Cardinality(DOMAIN respond_type) = 2

\* ------------------------------------------------------------------------
\* Properties of the pure functions.  Each is a predicate on probe, the
\* argument and value of a call, and is compared with a reading of the bytes
\* that does not go through the functions themselves.
\* ------------------------------------------------------------------------

\* the position just past the first byte at or after p without the
\* continuation bit, -1 if the buffer ends before one
RECURSIVE VarIntEnd(_, _)
VarIntEnd(buf, p) ==
    IF p >= Len(buf) THEN -1
    ELSE IF At(buf, p) < 128 THEN p + 1
    ELSE VarIntEnd(buf, p + 1)

\* the number of significant bits of a byte
RECURSIVE BitLen(_)
BitLen(b) == IF b = 0 THEN 0 ELSE 1 + BitLen(b \div 2)

\* the most bytes a varint of the width takes
MaxVarIntBytes == (WordBits + 6) \div 7

\* the varint at p ends in the buffer and its value fits the width
VarIntFits(buf, p) ==
    /\ VarIntEnd(buf, p) > 0
    /\ 7 * (VarIntEnd(buf, p) - p - 1) + BitLen(At(buf, VarIntEnd(buf, p) - 1)) <= WordBits

\* bit n of the value of the varint in buf[p..e): bit n % 7 of byte n / 7
VarIntBit(buf, p, e, n) ==
    IF p + (n \div 7) < e THEN (At(buf, p + (n \div 7)) \div Pow2(n % 7)) % 2 ELSE 0

\* bits 16 * (k - 1) + b .. 16 * k - 1 of the value, as a number
RECURSIVE VarIntLimb(_, _, _, _, _)
VarIntLimb(buf, p, e, k, b) ==
    IF b = 16 THEN 0
    ELSE VarIntBit(buf, p, e, 16 * (k - 1) + b) * Pow2(b) + VarIntLimb(buf, p, e, k, b + 1)

\* the value of the varint in buf[p..e) as a word
VarIntValue(buf, p, e) == [k \in 1..4 |-> VarIntLimb(buf, p, e, k, 0)]

\* the boundary values with their encodings
VarIntBoundaries ==
    { [enc |-> <<0>>,                   word |-> <<0, 0, 0, 0>>],
      [enc |-> <<127>>,                 word |-> <<127, 0, 0, 0>>],
      [enc |-> <<128, 1>>,              word |-> <<128, 0, 0, 0>>],
      [enc |-> <<255, 127>>,            word |-> <<16383, 0, 0, 0>>],
      [enc |-> <<128, 128, 1>>,         word |-> <<16384, 0, 0, 0>>],
      [enc |-> Fill(255, 9) \o <<1>>,   word |-> <<65535, 65535, 65535, 65535>>] }

\* how a sub-buffer reads block by block when every length must be whole:
\* "blocks" with their number n, or the first defect met; a varint of
\* MaxVarIntBytes bytes is taken modulo 2^64
RECURSIVE StrictBlocks(_, _, _)
StrictBlocks(buf, i, n) ==
    IF i >= Len(buf) THEN [kind |-> "blocks", n |-> n, type |-> 0]
    ELSE LET type == At(buf, i) % 8
             e == VarIntEnd(buf, i + 1)
             len == VarIntValue(buf, i + 1, e)
             defect(kind) == [kind |-> kind, n |-> n, type |-> type]
         IN  IF type \notin {0, 2} THEN defect("type")
             ELSE IF i + 1 >= Len(buf) THEN defect("no length")
             ELSE IF e < 0 THEN defect("cut varint")
             ELSE IF e - (i + 1) > MaxVarIntBytes THEN defect("wide varint")
             ELSE IF type = 0 THEN StrictBlocks(buf, e, n + 1)
             ELSE IF ~WordFitsInt(len) \/ e + WordToInt(len) > Len(buf)
             THEN defect("cut span")
             ELSE StrictBlocks(buf, e + WordToInt(len), n + 1)

\* C14: the hand-built sub-buffer [tag type 2][varint len(n)][n][tag type 2]
\* [varint len(p)][p] is split into exactly (n, p), name first, whatever
\* the block ids, the contents of n and p, and the build; read strictly the
\* sub-buffer is two blocks up to its end.
C14_BlocksRoundTrip ==
    probe.fn = "round_trip" =>
        /\ probe.val.kind = "ok"
        /\ probe.val.method = probe.n
        /\ probe.val.data = probe.p
        /\ StrictBlocks(probe.buf, 0, 0) = [kind |-> "blocks", n |-> 2, type |-> 0]

\* a name of 128 bytes, whose length takes two bytes, and a payload that
\* holds tag-like bytes, under the largest block ids
C14_Witness ==
    /\ probe.fn = "round_trip"
    /\ Len(probe.n) = 128
    /\ probe.p = <<10, 0>>
    /\ probe.ids = <<31, 31>>
    /\ probe.val.kind = "ok"
    /\ probe.val.method = probe.n

\* C15: buf_to_blocks returns an error for every sub-buffer that is not
\* exactly two blocks, and the error "Invalid block type" naming the type
\* when a tag's low three bits are neither 0 nor 2.
C15_NotTwoBlocksIsError ==
    probe.fn = "buf_to_blocks" =>
        /\ StrictBlocks(probe.buf, 0, 0) # [kind |-> "blocks", n |-> 2, type |-> 0] =>
              probe.val.kind = "err"
        /\ StrictBlocks(probe.buf, 0, 0).kind = "type" =>
              /\ probe.val.msg = "Invalid block type"
              /\ probe.val.arg = <<StrictBlocks(probe.buf, 0, 0).type>>

\* C16: buf_to_blocks returns an error for a sub-buffer whose type-2 length
\* runs past the end, whose varint ends on a byte with the continuation bit,
\* or whose varint has more continuation bytes than the width holds.
C16_BadLengthIsError ==
    (probe.fn = "buf_to_blocks"
        /\ StrictBlocks(probe.buf, 0, 0).kind \in {"cut span", "cut varint", "wide varint"}) =>
        probe.val.kind = "err"

\* C17: for a varint that ends in the buffer and fits the width,
\* parse_var_int(buf, p) returns its value (bit n of the value is bit n % 7
\* of byte n / 7) and the position just past its last byte, in either
\* build; so for the encodings of 0, 127, 128, 16383, 16384 and 2^64 - 1.
C17_VarIntValue ==
    probe.fn = "parse_var_int" =>
        /\ VarIntFits(probe.buf, probe.p) =>
              /\ probe.val.kind = "ok"
              /\ probe.val.data = VarIntValue(probe.buf, probe.p, VarIntEnd(probe.buf, probe.p))
              /\ probe.val.i = VarIntEnd(probe.buf, probe.p)
        /\ \A t \in VarIntBoundaries :
              (probe.buf = t.enc /\ probe.p = 0) =>
                  /\ probe.val.kind = "ok"
                  /\ probe.val.data = t.word
                  /\ probe.val.i = Len(t.enc)

\* the ten bytes of 2^64 - 1 read with overflow checks on
C17_Witness ==
    /\ probe.fn = "parse_var_int"
    /\ build = "debug"
    /\ probe.buf = Fill(255, 9) \o <<1>>
    /\ probe.p = 0
    /\ probe.val.data = <<65535, 65535, 65535, 65535>>
    /\ probe.val.i = 10

\* a xor b from the bits k and up
RECURSIVE XorFrom(_, _, _)
XorFrom(a, b, k) ==
    IF k = 16 THEN 0
    ELSE (((a \div Pow2(k)) + (b \div Pow2(k))) % 2) * Pow2(k) + XorFrom(a, b, k + 1)

KeyCycle == <<132, 94, 78, 66, 57, 162, 31, 96, 28>>

\* input[i] XOR (((23 XOR d) + 5 * i + K[i mod 9]) AND 0xFF), i from 0
ExpectedByte(input, i) ==
    XorFrom(input[i + 1],
            (XorFrom(23, Len(input), 0) + 5 * i + KeyCycle[(i % 9) + 1]) % 256, 0)

\* C18: decode gives a buffer of the same length whose byte i is input[i]
\* XOR (((23 XOR d) + 5 * i + K[i mod 9]) AND 0xFF); decode of its own
\* output is the input; equal inputs give equal outputs.
C18_DecodeFormula ==
    /\ probe.fn = "decode" =>
          /\ Len(probe.val) = Len(probe.arg)
          /\ \A i \in 0..(Len(probe.arg) - 1) : probe.val[i + 1] = ExpectedByte(probe.arg, i)
    /\ probe.fn = "decode_twice" => probe.val = probe.arg
    /\ (probe.fn = "decode_pair" /\ probe.a = probe.b) => probe.va = probe.vb

\* a buffer longer than the key cycle, changed by decode and restored by
\* the second decode
C18_Witness ==
    /\ probe.fn = "decode_twice"
    /\ Len(probe.arg) > Len(KeyCycle)
    /\ probe.mid # probe.arg
    /\ probe.val = probe.arg

\* the indices both buffers of a pair have
Overlap == 1..Len(probe.a)

\* the probe holds a shorter buffer and a longer one that starts with it
PrefixPair ==
    /\ probe.fn = "decode_pair"
    /\ Len(probe.a) < Len(probe.b)
    /\ SubSeq(probe.b, 1, Len(probe.a)) = probe.a

\* C19 as stated: buffers of any two distinct lengths that agree on their
\* common prefix decode to outputs that differ at the overlapping indices.
C19_DiffersForDistinctLengths ==
    (PrefixPair /\ Overlap # {}) => \E j \in Overlap : probe.va[j] # probe.vb[j]

\* C19 amended: when the two lengths differ modulo 256 the outputs differ at
\* every overlapping index; when the lengths differ by a multiple of 256 the
\* outputs are equal at every overlapping index.
C19_DiffersModulo256 ==
    PrefixPair =>
        /\ Len(probe.a) % 256 # Len(probe.b) % 256 =>
              \A j \in Overlap : probe.va[j] # probe.vb[j]
        /\ Len(probe.a) % 256 = Len(probe.b) % 256 =>
              \A j \in Overlap : probe.va[j] = probe.vb[j]

\* lengths 2 and 3: both overlapping bytes come out different
C19_Witness ==
    /\ PrefixPair
    /\ Len(probe.a) = 2
    /\ Len(probe.b) = 3
    /\ probe.va[1] # probe.vb[1]
    /\ probe.va[2] # probe.vb[2]

====
